---- MODULE Spec2Model ----
(***************************************************************************)
(* Edge utilities of PoSe-Path (src/src/utils.py): remove_bidirection,     *)
(* to_bidirection, get_range_list, process_edges, get_edge_index_from_coo. *)
(*                                                                         *)
(* A (2, m) tensor is a sequence of m columns <<u, v>>; row r of the       *)
(* tensor is the sequence of the r-th components.  Index arrays hold       *)
(* 0-based indices as in the source; TLA+ sequences are 1-based.           *)
(* One behaviour is one call: Init binds the function and its arguments,   *)
(* the actions run the body.                                               *)
(***************************************************************************)
EXTENDS Integers, Sequences, FiniteSets

\* ---------------------------------------------------------------- bounds
\* node ids are 0..MaxNode
MaxNode == 1
\* total number of columns in any one call's input
MaxEdges == 2
\* number of relation types (entries of raw_edge_list / edge_list)
MaxTypes == 2

Nodes == 0 .. MaxNode
Columns == Nodes \X Nodes

\* all (2, m) tensors with m = n
EdgeListsOfLen(n) == [1 .. n -> Columns]
\* all (2, m) tensors with m <= n
EdgeLists(n) == UNION {EdgeListsOfLen(m) : m \in 0 .. n}

\* sequences of k edge lists holding at most budget columns in total
RECURSIVE EdgeListSeqs(_, _)
EdgeListSeqs(k, budget) ==
    IF k = 0 THEN {<<>>}
    ELSE UNION {{Append(r, e) : r \in EdgeListSeqs(k - 1, budget - m), e \in EdgeListsOfLen(m)}
                : m \in 0 .. budget}

RawEdgeLists == UNION {EdgeListSeqs(k, MaxEdges) : k \in 0 .. MaxTypes}

\* label values of the relation-type vocabulary
TypeIds == 0 .. (MaxTypes - 1)

\* an optional edge_type argument: None, or a 1-D label tensor
None == [given |-> FALSE, val |-> <<>>]
Some(v) == [given |-> TRUE, val |-> v]

\* label arguments paired with an m-column edge list: None, a label sequence
\* of the right length, or one a label short or a label long
EdgeTypeArgs(m) ==
    {None} \cup {Some(v) : v \in UNION {[1 .. l -> TypeIds] : l \in {m - 1, m, m + 1} \cap Nat}}

\* train fractions p as num/den with den > 0: below 0, 0, the default 0.9, 1, above 1
PValues == {<<-1, 10>>, <<0, 10>>, <<9, 10>>, <<10, 10>>, <<11, 10>>}

\* ------------------------------------------------------- tensor helpers
Row(t, r) == [k \in 1 .. Len(t) |-> t[k][r + 1]]

\* t[r, :] = vals
SetRow(t, r, vals) ==
    [k \in 1 .. Len(t) |-> IF r = 0 THEN <<vals[k], t[k][2]>> ELSE <<t[k][1], vals[k]>>]

\* mask.nonzero(): the 0-based positions of the nonzero entries, ascending
RECURSIVE NonzeroUpTo(_, _)
NonzeroUpTo(mask, n) ==
    IF n = 0 THEN <<>>
    ELSE IF mask[n] # 0 THEN Append(NonzeroUpTo(mask, n - 1), n - 1)
         ELSE NonzeroUpTo(mask, n - 1)

\* every position, whatever the mask holds
nonzero_all(mask) == [k \in 1 .. Len(mask) |-> k - 1]

nonzero(mask) == NonzeroUpTo(mask, Len(mask))

\* t[:, idx] (advanced indexing: a fresh tensor) and v[idx]
IndexSelect(t, idx) == [j \in 1 .. Len(idx) |-> t[idx[j] + 1]]

\* torch.cat over a non-empty list (dim=1 for edge tensors, dim=0 for labels)
RECURSIVE Cat(_)
Cat(list) == IF list = <<>> THEN <<>> ELSE Head(list) \o Cat(Tail(list))

\* ---------------------------------------------------- remove_bidirection
GtMask(edge_index) ==
    [k \in 1 .. Len(edge_index) |-> IF edge_index[k][1] > edge_index[k][2] THEN 1 ELSE 0]

\* [ok, edges, labels]; ok = FALSE is the IndexError of edge_type[keep_set]
remove_bidirection(edge_index, edge_type) ==
    LET mask == GtMask(edge_index)
        keep_set == nonzero(mask)
    IN  IF ~edge_type.given
        THEN [ok |-> TRUE, edges |-> IndexSelect(edge_index, keep_set), labels |-> None]
        ELSE IF \E j \in 1 .. Len(keep_set) : keep_set[j] >= Len(edge_type.val)
             THEN [ok |-> FALSE, edges |-> <<>>, labels |-> None]
             ELSE [ok |-> TRUE, edges |-> IndexSelect(edge_index, keep_set),
                   labels |-> Some(IndexSelect(edge_type.val, keep_set))]

\* --------------------------------------------------------- to_bidirection
\* tmp = edge_index: no copy
clone_alias(t) == [data |-> t, shares |-> TRUE]

\* edge_index.clone(), as a tensor handle: its data and whether it shares
\* storage with its source
clone(t) == [data |-> t, shares |-> FALSE]

\* the copy is concatenated without the row swap
to_bidirection_noswap(edge_index, edge_type) ==
    [arg |-> edge_index, edges |-> edge_index \o edge_index,
     labels |-> IF edge_type.given THEN Some(edge_type.val \o edge_type.val) ELSE None]

\* [arg, edges, labels]: arg is the caller's tensor after the call
to_bidirection(edge_index, edge_type) ==
    LET tmp0 == clone(edge_index)
        \* the right-hand sides are views of edge_index; the two row stores
        \* run left to right
        tmp1 == SetRow(tmp0.data, 0, Row(edge_index, 1))
        src1 == IF tmp0.shares THEN tmp1 ELSE edge_index
        tmp2 == SetRow(tmp1, 1, Row(src1, 0))
        src2 == IF tmp0.shares THEN tmp2 ELSE edge_index
    IN  [arg |-> src2, edges |-> src2 \o tmp2,
         labels |-> IF edge_type.given THEN Some(edge_type.val \o edge_type.val) ELSE None]

\* --------------------------------------------------------- get_range_list
RECURSIVE RangeLoop(_, _, _, _)
RangeLoop(edge_list, k, s, tmp) ==
    IF k > Len(edge_list) THEN tmp
    ELSE RangeLoop(edge_list, k + 1, s + Len(edge_list[k]),
                   Append(tmp, <<s, s + Len(edge_list[k])>>))

\* s is never advanced
get_range_list_noacc(edge_list) ==
    [k \in 1 .. Len(edge_list) |-> <<0, Len(edge_list[k])>>]

\* s is advanced before the pair is appended
get_range_list_late(edge_list) ==
    LET r == RangeLoop(edge_list, 1, 0, <<>>)
    IN  [k \in 1 .. Len(r) |-> <<r[k][2], r[k][2] + Len(edge_list[k])>>]

get_range_list(edge_list) == RangeLoop(edge_list, 1, 0, <<>>)

\* ---------------------------------------------------------- process_edges
\* p = 1 is drawn like any p in (0, 1)
binomial_loose(p, n) ==
    [ok |-> p[1] >= 0 /\ p[1] <= p[2],
     draws |-> IF p[1] <= 0 THEN {[k \in 1 .. n |-> 0]} ELSE [1 .. n -> {0, 1}]]

\* np.random.binomial(1, p, n): [ok, draws]; ok = FALSE is numpy's ValueError
\* for p outside [0, 1]; draws is the set of arrays the call can return
binomial(p, n) ==
    [ok |-> p[1] >= 0 /\ p[1] <= p[2],
     draws |-> IF p[1] <= 0 THEN {[k \in 1 .. n |-> 0]}
               ELSE IF p[1] >= p[2] THEN {[k \in 1 .. n |-> 1]}
               ELSE [1 .. n -> {0, 1}]]

\* test_mask = train_mask
TestMaskSame(train_mask) == train_mask

\* test_mask = 1 - train_mask
TestMask(train_mask) == [k \in 1 .. Len(train_mask) |-> 1 - train_mask[k]]

\* torch.ones(n) * i: the doubling is forgotten
TypeLabelsSingle(n, i) == [k \in 1 .. n |-> 1 * i]

\* torch.ones(2 * n, dtype=torch.long) * i
TypeLabels(n, i) == [k \in 1 .. 2 * n |-> 1 * i]

\* ------------------------------------------------ get_edge_index_from_coo
\* mat.row >= mat.col
CooMaskGeq(mat) == [k \in 1 .. Len(mat) |-> IF mat[k][1] >= mat[k][2] THEN 1 ELSE 0]

\* mat.row > mat.col; mat is the sequence of stored entries <<row[k], col[k]>>
CooMask(mat) == [k \in 1 .. Len(mat) |-> IF mat[k][1] > mat[k][2] THEN 1 ELSE 0]

\* half[[1, 0], :]
SwapRowOrder(half) == [k \in 1 .. Len(half) |-> <<half[k][2], half[k][1]>>]

get_edge_index_from_coo(m, bidir) ==
    IF bidir
    THEN LET half == IndexSelect(m, nonzero(CooMask(m)))
         IN  half \o SwapRowOrder(half)
    ELSE m

\* ------------------------------------------------------------------ state
VARIABLES
    fn,               \* the function called
    pc,               \* "start", "loop", "done" or "error"
    err,              \* the exception raised, "" when none
    edge_index,       \* the caller's tensor passed to (remove|to)_bidirection
    edge_index_in,    \* its contents when the call was made
    edge_type,        \* the optional label argument
    raw_edge_list,    \* process_edges / get_range_list argument
    p,                \* process_edges train fraction
    mat,              \* get_edge_index_from_coo matrix entries
    bidirection,      \* get_edge_index_from_coo flag
    i,                \* process_edges: number of types the loop has handled
    train_sets,       \* process_edges: train_set of each handled type
    test_sets,        \* process_edges: test_set of each handled type
    train_list,
    test_list,
    train_label_list,
    test_label_list,
    ret_edges,        \* returned edge tensor
    ret_labels,       \* returned label tensor (optional)
    ret_range,        \* returned range table
    out               \* process_edges return value

locals == <<i, train_sets, test_sets, train_list, test_list, train_label_list, test_label_list>>
args == <<fn, edge_index_in, edge_type, raw_edge_list, p, mat, bidirection>>
rets == <<ret_edges, ret_labels, ret_range, out>>
vars == <<pc, err, edge_index, args, locals, rets>>

NoOut == [train_edge_idx |-> <<>>, train_et |-> <<>>, train_range |-> <<>>,
          test_edge_idx |-> <<>>, test_et |-> <<>>, test_range |-> <<>>]

Functions == {"remove_bidirection", "to_bidirection", "get_range_list",
              "process_edges", "get_edge_index_from_coo"}

Init ==
    /\ fn \in Functions
    /\ pc = "start"
    /\ err = ""
    /\ edge_index \in (IF fn \in {"remove_bidirection", "to_bidirection"}
                       THEN EdgeLists(MaxEdges) ELSE {<<>>})
    /\ edge_index_in = edge_index
    /\ edge_type \in (IF fn \in {"remove_bidirection", "to_bidirection"}
                      THEN EdgeTypeArgs(Len(edge_index)) ELSE {None})
    /\ raw_edge_list \in (IF fn \in {"process_edges", "get_range_list"}
                          THEN RawEdgeLists ELSE {<<>>})
    /\ p \in (IF fn = "process_edges" THEN PValues ELSE {<<9, 10>>})
    /\ mat \in (IF fn = "get_edge_index_from_coo" THEN EdgeLists(MaxEdges) ELSE {<<>>})
    /\ bidirection \in (IF fn = "get_edge_index_from_coo" THEN BOOLEAN ELSE {FALSE})
    /\ i = 0
    /\ train_sets = <<>>
    /\ test_sets = <<>>
    /\ train_list = <<>>
    /\ test_list = <<>>
    /\ train_label_list = <<>>
    /\ test_label_list = <<>>
    /\ ret_edges = <<>>
    /\ ret_labels = None
    /\ ret_range = <<>>
    /\ out = NoOut

RemoveBidirection ==
    /\ fn = "remove_bidirection"
    /\ pc = "start"
    /\ LET r == remove_bidirection(edge_index, edge_type)
       IN  /\ pc' = IF r.ok THEN "done" ELSE "error"
           /\ err' = IF r.ok THEN "" ELSE "IndexError"
           /\ ret_edges' = r.edges
           /\ ret_labels' = r.labels
    /\ UNCHANGED <<edge_index, args, locals, ret_range, out>>

ToBidirection ==
    /\ fn = "to_bidirection"
    /\ pc = "start"
    /\ LET r == to_bidirection(edge_index, edge_type)
       IN  /\ edge_index' = r.arg
           /\ ret_edges' = r.edges
           /\ ret_labels' = r.labels
    /\ pc' = "done"
    /\ UNCHANGED <<err, args, locals, ret_range, out>>

GetRangeList ==
    /\ fn = "get_range_list"
    /\ pc = "start"
    /\ ret_range' = get_range_list(raw_edge_list)
    /\ pc' = "done"
    /\ UNCHANGED <<err, edge_index, args, locals, ret_edges, ret_labels, out>>

\* one iteration of the for loop (lines 44-54)
ProcessEdgesLoop ==
    /\ fn = "process_edges"
    /\ pc \in {"start", "loop"}
    /\ i < Len(raw_edge_list)
    /\ LET idx == raw_edge_list[i + 1]
           b == binomial(p, Len(idx))
       IN  IF ~b.ok
           THEN /\ pc' = "error"
                /\ err' = "ValueError"
                /\ UNCHANGED locals
           ELSE \E train_mask \in b.draws :
                  LET test_mask == TestMask(train_mask)
                      train_set == nonzero(train_mask)
                      test_set == nonzero(test_mask)
                  IN  /\ train_sets' = Append(train_sets, train_set)
                      /\ test_sets' = Append(test_sets, test_set)
                      /\ train_list' = Append(train_list, IndexSelect(idx, train_set))
                      /\ test_list' = Append(test_list, IndexSelect(idx, test_set))
                      /\ train_label_list' =
                             Append(train_label_list, TypeLabels(Len(train_set), i))
                      /\ test_label_list' =
                             Append(test_label_list, TypeLabels(Len(test_set), i))
                      /\ i' = i + 1
                      /\ pc' = "loop"
                      /\ err' = ""
    /\ UNCHANGED <<edge_index, args, rets>>

\* lines 56-68; torch.cat raises on an empty list of tensors
ProcessEdgesFinish ==
    /\ fn = "process_edges"
    /\ pc \in {"start", "loop"}
    /\ i = Len(raw_edge_list)
    /\ LET train_bi == [t \in 1 .. Len(train_list) |-> to_bidirection(train_list[t], None).edges]
           test_bi == [t \in 1 .. Len(test_list) |-> to_bidirection(test_list[t], None).edges]
       IN  IF train_bi = <<>>
           THEN /\ pc' = "error"
                /\ err' = "RuntimeError"
                /\ UNCHANGED <<locals, out>>
           ELSE /\ train_list' = train_bi
                /\ test_list' = test_bi
                /\ out' = [train_edge_idx |-> Cat(train_bi),
                           train_et |-> Cat(train_label_list),
                           train_range |-> get_range_list(train_bi),
                           test_edge_idx |-> Cat(test_bi),
                           test_et |-> Cat(test_label_list),
                           test_range |-> get_range_list(test_bi)]
                /\ pc' = "done"
                /\ err' = ""
                /\ UNCHANGED <<i, train_sets, test_sets, train_label_list, test_label_list>>
    /\ UNCHANGED <<edge_index, args, ret_edges, ret_labels, ret_range>>

GetEdgeIndexFromCoo ==
    /\ fn = "get_edge_index_from_coo"
    /\ pc = "start"
    /\ ret_edges' = get_edge_index_from_coo(mat, bidirection)
    /\ pc' = "done"
    /\ UNCHANGED <<err, edge_index, args, locals, ret_labels, ret_range, out>>

Next ==
    \/ RemoveBidirection
    \/ ToBidirection
    \/ GetRangeList
    \/ ProcessEdgesLoop
    \/ ProcessEdgesFinish
    \/ GetEdgeIndexFromCoo

Spec == Init /\ [][Next]_vars

\* ---------------------------------------------------------------- claims
IndexSet(s) == {s[j] : j \in 1 .. Len(s)}
Reversed(cols) == [k \in 1 .. Len(cols) |-> <<cols[k][2], cols[k][1]>>]
Segment(flat, rng) == SubSeq(flat, rng[1] + 1, rng[2])
NoRepeats(s) == \A a, b \in 1 .. Len(s) : s[a] = s[b] => a = b
Done(f) == fn = f /\ pc = "done"

\* C1: for every type the loop has handled and every mask drawn, train_set and
\* test_set are disjoint, hold no index twice, and together are exactly
\* {0 .. m_i - 1}, the column indices of that type's input edge list.
C1_SplitPartition ==
    fn = "process_edges" =>
        /\ Len(train_sets) = i
        /\ Len(test_sets) = i
        /\ \A t \in 1 .. i :
             /\ IndexSet(train_sets[t]) \cap IndexSet(test_sets[t]) = {}
             /\ IndexSet(train_sets[t]) \cup IndexSet(test_sets[t])
                    = 0 .. (Len(raw_edge_list[t]) - 1)
             /\ Cardinality(IndexSet(train_sets[t])) = Len(train_sets[t])
             /\ Cardinality(IndexSet(test_sets[t])) = Len(test_sets[t])

C1_Witness ==
    /\ Done("process_edges")
    /\ \E t \in 1 .. Len(train_sets) : train_sets[t] # <<>> /\ test_sets[t] # <<>>

\* the columns of type t the mask put in the split, followed by their reversals
ExpectedSegment(t, sets) ==
    LET sel == [j \in 1 .. Len(sets[t]) |-> raw_edge_list[t][sets[t][j] + 1]]
    IN  sel \o Reversed(sel)

RangesMatch(flat, ranges, sets) ==
    /\ Len(ranges) = Len(raw_edge_list)
    /\ ranges[1][1] = 0
    /\ ranges[Len(ranges)][2] = Len(flat)
    /\ \A t \in 1 .. (Len(ranges) - 1) : ranges[t + 1][1] = ranges[t][2]
    /\ \A t \in 1 .. Len(ranges) :
         /\ ranges[t][2] - ranges[t][1] = 2 * Len(sets[t])
         /\ Segment(flat, ranges[t]) = ExpectedSegment(t, sets)

\* C2: in the output of process_edges, for both splits, the range of type i is
\* 2 x (columns of type i the mask gave the split) long, the ranges tile the
\* flat tensor in type order, and the columns inside range i are exactly the
\* bidirectionalized columns of type i; an empty type or split is an empty
\* interval.
C2_RangesMatchSegments ==
    Done("process_edges") =>
        /\ RangesMatch(out.train_edge_idx, out.train_range, train_sets)
        /\ RangesMatch(out.test_edge_idx, out.test_range, test_sets)

C2_Witness ==
    /\ Done("process_edges")
    /\ \E t \in 2 .. Len(out.train_range) :
         /\ out.train_range[t][1] > 0
         /\ out.train_range[t][1] = out.train_range[t][2]
         /\ out.test_range[t][2] > out.test_range[t][1]

LabelsAligned(flat, labels, ranges) ==
    /\ Len(labels) = Len(flat)
    /\ \A t \in 1 .. Len(ranges) :
         \A k \in (ranges[t][1] + 1) .. ranges[t][2] : labels[k] = t - 1
    /\ \A k \in 1 .. Len(labels) :
         \E t \in 1 .. Len(ranges) : ranges[t][1] < k /\ k <= ranges[t][2]

\* C3: for both splits of process_edges' output there are as many labels as
\* columns, and the label of every column is the index of the type whose
\* segment the column lies in.
C3_LabelsAligned ==
    Done("process_edges") =>
        /\ LabelsAligned(out.train_edge_idx, out.train_et, out.train_range)
        /\ LabelsAligned(out.test_edge_idx, out.test_et, out.test_range)

C3_Witness ==
    /\ Done("process_edges")
    /\ \E k \in 1 .. Len(out.train_et) : out.train_et[k] = 0
    /\ \E k \in 1 .. Len(out.train_et) : out.train_et[k] = 1

RECURSIVE SumCols(_, _)
SumCols(edge_list, n) == IF n = 0 THEN 0 ELSE SumCols(edge_list, n - 1) + Len(edge_list[n])

\* C4: get_range_list returns one pair per edge list, entry i being
\* (sum of m_j for j < i, sum of m_j for j <= i): the first start is 0, each
\* start is the previous end, and the last end is the sum of all m_i.
C4_RangeList ==
    Done("get_range_list") =>
        /\ Len(ret_range) = Len(raw_edge_list)
        /\ \A t \in 1 .. Len(ret_range) :
             ret_range[t] = <<SumCols(raw_edge_list, t - 1), SumCols(raw_edge_list, t)>>
        /\ \A t \in 1 .. (Len(ret_range) - 1) : ret_range[t + 1][1] = ret_range[t][2]
        /\ Len(ret_range) > 0 =>
             /\ ret_range[1][1] = 0
             /\ ret_range[Len(ret_range)][2] = Len(Cat(raw_edge_list))

C4_Witness ==
    /\ Done("get_range_list")
    /\ \E t \in 1 .. Len(ret_range) : ret_range[t][1] > 0 /\ ret_range[t][2] > ret_range[t][1]

\* C5: to_bidirection of an m-column edge list returns 2m columns, every
\* returned column (u, v) has a returned column (v, u), and with a label
\* sequence of length m the returned labels have length 2m, the labels of
\* columns k and k + m both being the input label of column k.
C5_ToBidirection ==
    Done("to_bidirection") =>
        LET m == Len(edge_index_in)
        IN  /\ Len(ret_edges) = 2 * m
            /\ \A k \in 1 .. Len(ret_edges) :
                 \E j \in 1 .. Len(ret_edges) :
                     ret_edges[j] = <<ret_edges[k][2], ret_edges[k][1]>>
            /\ (edge_type.given /\ Len(edge_type.val) = m) =>
                 /\ ret_labels.given
                 /\ Len(ret_labels.val) = 2 * m
                 /\ \A k \in 1 .. m :
                      /\ ret_labels.val[k] = edge_type.val[k]
                      /\ ret_labels.val[k + m] = edge_type.val[k]

C5_Witness ==
    /\ Done("to_bidirection")
    /\ edge_type.given
    /\ Len(edge_type.val) = Len(edge_index_in)
    /\ Len(edge_index_in) = MaxEdges
    /\ \E k \in 1 .. Len(edge_index_in) : edge_index_in[k][1] > edge_index_in[k][2]

\* C6: after to_bidirection returns, the caller's edge list has the columns
\* it had when the call was made, in the same order.
C6_InputNotMutated ==
    Done("to_bidirection") => edge_index = edge_index_in

C6_Witness ==
    /\ Done("to_bidirection")
    /\ ~edge_type.given
    /\ \E k \in 1 .. Len(edge_index) : edge_index[k][1] # edge_index[k][2]

AllEmpty(flat, labels, ranges) ==
    /\ flat = <<>>
    /\ labels = <<>>
    /\ \A t \in 1 .. Len(ranges) : ranges[t][1] = ranges[t][2]

\* C7 as stated: whatever p is, process_edges does not fail on it; p <= 0
\* gives an all-test split and p >= 1 an all-train split.
C7_AsStated ==
    (fn = "process_edges" /\ Len(raw_edge_list) > 0) =>
        /\ (p[1] <= 0 \/ p[1] >= p[2]) => pc # "error"
        /\ (p[1] <= 0 /\ pc = "done") =>
             AllEmpty(out.train_edge_idx, out.train_et, out.train_range)
        /\ (p[1] >= p[2] /\ pc = "done") =>
             AllEmpty(out.test_edge_idx, out.test_et, out.test_range)

\* C7 amended: process_edges has no check of p of its own; with p = 0 the
\* split is all-test and with p = 1 all-train (the other split's segments are
\* empty, no error); with p < 0 or p > 1 and at least one type, the binomial
\* draw of the first type raises ValueError and nothing is returned.
C7_BoundaryFractions ==
    (fn = "process_edges" /\ Len(raw_edge_list) > 0) =>
        /\ (p[1] = 0 \/ p[1] = p[2]) => pc # "error"
        /\ (p[1] = 0 /\ pc = "done") =>
             /\ AllEmpty(out.train_edge_idx, out.train_et, out.train_range)
             /\ Len(out.test_edge_idx) = 2 * Len(Cat(raw_edge_list))
        /\ (p[1] = p[2] /\ pc = "done") =>
             /\ AllEmpty(out.test_edge_idx, out.test_et, out.test_range)
             /\ Len(out.train_edge_idx) = 2 * Len(Cat(raw_edge_list))
        /\ (p[1] < 0 \/ p[1] > p[2]) =>
             /\ pc \in {"start", "error"}
             /\ pc = "error" => (err = "ValueError" /\ out = NoOut)

C7_Witness ==
    /\ Done("process_edges")
    /\ p[1] = p[2]
    /\ Len(out.train_edge_idx) = 2 * MaxEdges
    /\ Len(out.test_range) = MaxTypes

\* C8: a call of remove_bidirection or to_bidirection with a label sequence
\* whose length differs from the column count ends in a length-mismatch error.
C8_LengthMismatchFails ==
    (/\ fn \in {"remove_bidirection", "to_bidirection"}
     /\ pc # "start"
     /\ edge_type.given
     /\ Len(edge_type.val) # Len(edge_index_in)) =>
        pc = "error" /\ err = "LengthMismatchError"

\* C9 as stated: with bidirection=true no column occurs twice in the output,
\* whatever redundant entries the matrix stores.
C9_AsStated ==
    (Done("get_edge_index_from_coo") /\ bidirection) => NoRepeats(ret_edges)

\* C9 amended: with bidirection=true the output is the stored entries with
\* row > col, in stored order, followed by their row/col-swapped copies; when
\* no entry with row > col is stored twice, no column occurs twice in the
\* output, also when the matrix stores both directions of an edge.
C9_CanonicalHalfThenSwap ==
    (Done("get_edge_index_from_coo") /\ bidirection) =>
        LET half == SelectSeq(mat, LAMBDA e : e[1] > e[2])
        IN  /\ ret_edges = half \o Reversed(half)
            /\ NoRepeats(half) => NoRepeats(ret_edges)

C9_Witness ==
    /\ Done("get_edge_index_from_coo")
    /\ bidirection
    /\ \E a, b \in 1 .. Len(mat) : mat[a][1] > mat[a][2] /\ mat[b] = <<mat[a][2], mat[a][1]>>
    /\ Len(ret_edges) = 2

UnorderedDistinct(cols) ==
    \A a, b \in 1 .. Len(cols) :
        a # b => (cols[a] # cols[b] /\ cols[a] # <<cols[b][2], cols[b][1]>>)

\* C10: when the columns of a type's input edge list are pairwise distinct as
\* unordered pairs, no directed edge lies both in that type's segment of
\* train_edges and in its segment of test_edges.
C10_NoSharedEdge ==
    Done("process_edges") =>
        \A t \in 1 .. Len(raw_edge_list) :
            UnorderedDistinct(raw_edge_list[t]) =>
                IndexSet(Segment(out.train_edge_idx, out.train_range[t]))
                    \cap IndexSet(Segment(out.test_edge_idx, out.test_range[t])) = {}

C10_Witness ==
    /\ Done("process_edges")
    /\ \E t \in 1 .. Len(raw_edge_list) :
         /\ Len(raw_edge_list[t]) = MaxEdges
         /\ UnorderedDistinct(raw_edge_list[t])
         /\ out.train_range[t][2] > out.train_range[t][1]
         /\ out.test_range[t][2] > out.test_range[t][1]

====
